---- MODULE Spec2Model ----
(***************************************************************************)
(* Model of the scripting-to-GPU bridge of AImgProc (src/src/compute.rs):  *)
(* the executor CInstance, its buffer registry CScope, the Rhai engines    *)
(* that expose CScope methods to the pipeline script, and the host<->device *)
(* image transfer.                                                         *)
(*                                                                         *)
(* Two specifications are given.                                           *)
(*   Spec      the program: CInstance::init, the script's init function,   *)
(*             then any number of CInstance::compute calls, each running   *)
(*             the script's run function.  A script statement is a call    *)
(*             of a method on the `ocl` object; the engine that evaluates  *)
(*             it decides which methods exist.                             *)
(*   ScopeSpec the CScope object on its own: every method of impl CScope   *)
(*             applied in any order with any argument values.              *)
(*                                                                         *)
(* Device memory that was allocated and never written holds Undef.         *)
(* A Rust panic (panic!, unwrap, expect, an out-of-range index) ends the   *)
(* process: phase becomes "panicked" and nothing follows.                  *)
(***************************************************************************)
EXTENDS Integers, Sequences, FiniteSets, TLC

(* ---------------------------------------------------------------- bounds *)
\* completed compute calls per executor
MaxFrames == 3
\* call_kernel statements per run of the script
MaxCalls == 1
\* creation statements in the script's init function
MaxCreates == 2
\* creation calls on a bare CScope (ScopeSpec)
MaxApiCreates == 1
\* arguments of one call_kernel on a bare CScope (ScopeSpec)
MaxArgs == 2

(* ---------------------------------------------------------- input domains *)
\* registry keys a script uses
Names == {"input", "output", "aux"}
\* frame sizes (width, height)
Sizes == {<<1, 1>>, <<2, 1>>}
Seeds == {0, 1}

Min(a, b) == IF a < b THEN a ELSE b

\* content of a freshly allocated, never written device element
Undef == -1

\* `as u32`: the low 32 bits, taken 16 bits at a time
U32(n) == (n % 65536) + 65536 * ((n \div 65536) % 65536)

(* ------------------------------------------------------- dynamic values *)
\* rhai::Dynamic, by the type it holds.  a, b carry the payload.
Dyn(t, name, a, b) == [t |-> t, name |-> name, a |-> a, b |-> b]
I64(v) == Dyn("i64", "", v, 0)
F64(v) == Dyn("f64", "", v, 0)
Str == Dyn("string", "", 0, 0)
Unit == Dyn("()", "", 0, 0)
BufferRhaiRef(name, size) == Dyn("BufferRhaiRef", name, size, 0)
ImageRhaiRef(name, width, height) == Dyn("ImageRhaiRef", name, width, height)

\* the scalar types call_kernel tries, in source order
ScalarTypes == <<"i8", "u8", "i16", "u16", "i32", "u32", "i64", "u64",
                 "f32", "f64", "isize", "usize">>
IsScalar(arg) == \E i \in 1..Len(ScalarTypes) : ScalarTypes[i] = arg.t

(* ------------------------------------------------------------- registry *)
\* enum Buff over an ocl::Buffer: id is the identity of the device
\* allocation, data its contents, w and h the fields of Buff::Image.
Buff(kind, id, data, w, h) == [kind |-> kind, id |-> id, data |-> data, w |-> w, h |-> h]

Fresh(n) == [i \in 1..n |-> Undef]

\* an insert that evicts the entry "aux" when another key is written
InsertEvicting(bufs, name, b) ==
    [n \in (DOMAIN bufs \ {"aux"}) \cup {name} |-> IF n = name THEN b ELSE bufs[n]]

\* HashMap::insert
Insert(bufs, name, b) ==
    [n \in DOMAIN bufs \cup {name} |-> IF n = name THEN b ELSE bufs[n]]

\* host images: width, height, interleaved RGB bytes
Image(w, h, px) == [w |-> w, h |-> h, px |-> px]
NoImage == Image(0, 0, <<>>)
Pixels(w, h, seed) == [i \in 1..(w * h * 3) |-> (seed * 16 + i) % 256]
Images == {Image(s[1], s[2], Pixels(s[1], s[2], seed)) : s \in Sizes, seed \in Seeds}

VARIABLES
    phase,        \* "uninit", "init", "ready", "run", "api", "panicked"
    buffers,      \* CScope.buffers: the registry shared by every clone
    dynimg_size,  \* CInstance.scope.dynimg_size
    queue_dims,   \* the dims the ProQue was built with: the size given to init
    ocl_size,     \* dynimg_size of the clone the script holds as `ocl`
    next_id,      \* identity given to the next device allocation
    scope,        \* the references create_rhai_scope pushed, by name
    img,          \* the image passed to the compute in progress
    out,          \* the image the last compute returned
    runlog,       \* the call_kernel invocations of the current run
    err,          \* the panic message and the name it carries
    ret,          \* what the last creation method returned
    frames,       \* compute calls completed
    creates       \* creation statements executed by init

vars == <<phase, buffers, dynimg_size, queue_dims, ocl_size, next_id, scope, img, out,
          runlog, err, ret, frames, creates>>

NoErr == [msg |-> "", name |-> ""]
Error(msg, name) == [msg |-> msg, name |-> name]

(* ------------------------------------------------- the OpenCL program *)
\* The kernels of the program source handed to ProQue::builder, by name:
\* the parameter types of each.  Every kernel ends with the two u32
\* frame-size parameters call_kernel appends.
Program ==
    [copy |-> <<"u8*", "u8*", "u32", "u32">>,
     blit |-> <<"u8*", "usize", "usize", "u8*", "u32", "u32">>,
     setc |-> <<"u8*", "i64", "u32", "u32">>,
     fill |-> <<"f64*", "u32", "u32">>,
     zero |-> <<"i64*", "u32", "u32">>]
Kernels == DOMAIN Program

\* a bound kernel argument: type, and for a buffer its registry key and
\* device identity, for a scalar its value
Param(p, name, id, v) == [p |-> p, name |-> name, id |-> id, v |-> v]

\* writes src[1..n] over the head of dst
Overlay(dst, src, n) == [i \in 1..Len(dst) |-> IF i <= n THEN src[i] ELSE dst[i]]

WithData(bufs, name, data) ==
    [bufs EXCEPT ![name] = Buff(@.kind, @.id, data, @.w, @.h)]

\* The effect of the enqueued kernel on device memory (ker.enq()).
RunKernel(bufs, name, ps) ==
    CASE name = "copy" ->
           LET src == bufs[ps[1].name].data
               dst == bufs[ps[2].name].data
               n == Min(ps[3].v * ps[4].v * 3, Min(Len(src), Len(dst)))
           IN WithData(bufs, ps[2].name, Overlay(dst, src, n))
      [] name = "blit" ->
           LET src == bufs[ps[1].name].data
               dst == bufs[ps[4].name].data
               n == Min(ps[2].v * ps[3].v * 3, Min(Len(src), Len(dst)))
           IN WithData(bufs, ps[4].name, Overlay(dst, src, n))
      [] name = "setc" ->
           LET dst == bufs[ps[1].name].data
               n == Min(ps[3].v * ps[4].v * 3, Len(dst))
           IN WithData(bufs, ps[1].name,
                       [i \in 1..Len(dst) |-> IF i <= n THEN ps[2].v % 256 ELSE dst[i]])
      [] name = "fill" ->
           WithData(bufs, ps[1].name, [i \in 1..Len(bufs[ps[1].name].data) |-> 9])
      [] name = "zero" ->
           WithData(bufs, ps[1].name, [i \in 1..Len(bufs[ps[1].name].data) |-> 0])

\* KernelBuilder::build: the kernel exists and the arguments given match
\* its parameters in number and type.
Builds(name, ps) ==
    /\ name \in Kernels
    /\ Len(ps) = Len(Program[name])
    /\ \A i \in 1..Len(ps) : ps[i].p = Program[name][i]

(* ------------------------------------------------------ CScope methods *)
Bound(ps) == [ok |-> TRUE, params |-> ps, err |-> NoErr]
Unbound(msg, name) == [ok |-> FALSE, params |-> <<>>, err |-> Error(msg, name)]

\* an iteration that lets a reference to an unregistered name bind nothing
BindArgLenient(bufs, arg) ==
    IF IsScalar(arg) THEN Bound(<<Param(arg.t, "", 0, arg.a)>>)
    ELSE IF arg.t \in {"BufferRhaiRef", "ImageRhaiRef"} /\ arg.name \in DOMAIN bufs
    THEN LET b == bufs[arg.name] IN
         CASE arg.t = "BufferRhaiRef" /\ b.kind = "IntBuffer" ->
                Bound(<<Param("i64*", arg.name, b.id, 0)>>)
           [] arg.t = "BufferRhaiRef" /\ b.kind = "FloatBuffer" ->
                Bound(<<Param("f64*", arg.name, b.id, 0)>>)
           [] arg.t = "ImageRhaiRef" /\ b.kind = "Image" ->
                Bound(<<Param("u8*", arg.name, b.id, 0), Param("usize", "", 0, arg.a),
                        Param("usize", "", 0, arg.b)>>)
           [] arg.t = "ImageRhaiRef" /\ b.kind = "DynImage" ->
                Bound(<<Param("u8*", arg.name, b.id, 0)>>)
           [] OTHER -> Unbound("There is no buffer named", arg.name)
    ELSE Bound(<<>>)

\* an iteration that binds, for any image reference, the buffer of "output"
BindArgOutputBuffer(bufs, arg) ==
    IF IsScalar(arg) THEN Bound(<<Param(arg.t, "", 0, arg.a)>>)
    ELSE IF arg.t = "BufferRhaiRef" THEN
        IF arg.name \notin DOMAIN bufs
        THEN Unbound("There is no buffer named", arg.name)
        ELSE LET b == bufs[arg.name] IN
             CASE b.kind = "IntBuffer" -> Bound(<<Param("i64*", arg.name, b.id, 0)>>)
               [] b.kind = "FloatBuffer" -> Bound(<<Param("f64*", arg.name, b.id, 0)>>)
               [] OTHER -> Unbound("There is no buffer named", arg.name)
    ELSE IF arg.t = "ImageRhaiRef" THEN
        IF arg.name \notin DOMAIN bufs
        THEN Unbound("There is no image named", arg.name)
        ELSE LET b == bufs[arg.name]
                 o == bufs["output"] IN
             CASE b.kind = "Image" ->
                    Bound(<<Param("u8*", arg.name, o.id, 0),
                            Param("usize", "", 0, arg.a),
                            Param("usize", "", 0, arg.b)>>)
               [] b.kind = "DynImage" -> Bound(<<Param("u8*", arg.name, o.id, 0)>>)
               [] OTHER -> Unbound("There is no image named", arg.name)
    ELSE Bound(<<>>)

\* an iteration that binds the buffer of whatever entry the name has
BindArgAnyKind(bufs, arg) ==
    IF IsScalar(arg) THEN Bound(<<Param(arg.t, "", 0, arg.a)>>)
    ELSE IF arg.t = "BufferRhaiRef" THEN
        IF arg.name \notin DOMAIN bufs
        THEN Unbound("There is no buffer named", arg.name)
        ELSE LET b == bufs[arg.name] IN
             CASE b.kind = "IntBuffer" -> Bound(<<Param("i64*", arg.name, b.id, 0)>>)
               [] b.kind = "FloatBuffer" -> Bound(<<Param("f64*", arg.name, b.id, 0)>>)
               [] OTHER -> Bound(<<Param("u8*", arg.name, b.id, 0)>>)
    ELSE IF arg.t = "ImageRhaiRef" THEN
        IF arg.name \notin DOMAIN bufs
        THEN Unbound("There is no image named", arg.name)
        ELSE LET b == bufs[arg.name] IN
             CASE b.kind = "Image" ->
                    Bound(<<Param("u8*", arg.name, b.id, 0),
                            Param("usize", "", 0, arg.a),
                            Param("usize", "", 0, arg.b)>>)
               [] b.kind = "DynImage" -> Bound(<<Param("u8*", arg.name, b.id, 0)>>)
               [] b.kind = "IntBuffer" -> Bound(<<Param("i64*", arg.name, b.id, 0)>>)
               [] OTHER -> Bound(<<Param("f64*", arg.name, b.id, 0)>>)
    ELSE Bound(<<>>)

\* One iteration of the loop of call_kernel: the parameters one script
\* argument binds.  A value that is no scalar and no reference reaches the
\* end of the loop body and binds nothing.
BindArg(bufs, arg) ==
    IF IsScalar(arg) THEN Bound(<<Param(arg.t, "", 0, arg.a)>>)
    ELSE IF arg.t = "BufferRhaiRef" THEN
        IF arg.name \notin DOMAIN bufs
        THEN Unbound("There is no buffer named", arg.name)
        ELSE LET b == bufs[arg.name] IN
             CASE b.kind = "IntBuffer" -> Bound(<<Param("i64*", arg.name, b.id, 0)>>)
               [] b.kind = "FloatBuffer" -> Bound(<<Param("f64*", arg.name, b.id, 0)>>)
               [] OTHER -> Unbound("There is no buffer named", arg.name)
    ELSE IF arg.t = "ImageRhaiRef" THEN
        IF arg.name \notin DOMAIN bufs
        THEN Unbound("There is no image named", arg.name)
        ELSE LET b == bufs[arg.name] IN
             CASE b.kind = "Image" ->
                    Bound(<<Param("u8*", arg.name, b.id, 0),
                            Param("usize", "", 0, arg.a),
                            Param("usize", "", 0, arg.b)>>)
               [] b.kind = "DynImage" -> Bound(<<Param("u8*", arg.name, b.id, 0)>>)
               [] OTHER -> Unbound("There is no image named", arg.name)
    ELSE Bound(<<>>)

\* for arg in args { ... }: left to right, stopping at the first panic
RECURSIVE BindArgs(_, _, _, _)
BindArgs(bufs, args, i, acc) ==
    IF i > Len(args) THEN Bound(acc)
    ELSE LET r == BindArg(bufs, args[i]) IN
         IF r.ok THEN BindArgs(bufs, args, i + 1, acc \o r.params) ELSE r

\* the frame size appended height first
TrailingSwapped(size) ==
    <<Param("u32", "", 0, U32(size[2])), Param("u32", "", 0, U32(size[1]))>>

\* the two arguments appended after the loop
Trailing(size) == <<Param("u32", "", 0, U32(size[1])), Param("u32", "", 0, U32(size[2]))>>

Call(kernel, args, params, enq, size) ==
    [kernel |-> kernel, args |-> args, params |-> params, enq |-> enq, size |-> size]

\* CScope::call_kernel on a scope whose dynimg_size is size
CallKernel(bufs, size, name, args) ==
    LET r == BindArgs(bufs, args, 1, <<>>)
        ps == r.params \o Trailing(size)
    IN IF ~r.ok
       THEN [ok |-> FALSE, err |-> r.err, buffers |-> bufs,
             call |-> Call(name, args, <<>>, FALSE, size)]
       ELSE IF ~Builds(name, ps)
       THEN [ok |-> FALSE, err |-> Error("Could not build kernel.", name), buffers |-> bufs,
             call |-> Call(name, args, ps, FALSE, size)]
       ELSE [ok |-> TRUE, err |-> NoErr, buffers |-> RunKernel(bufs, name, ps),
             call |-> Call(name, args, ps, TRUE, size)]

\* a set_input that allocates every other entry anew on each frame
SetInputRealloc(bufs, image) ==
    LET b == bufs["input"]
        fresh == [n \in DOMAIN bufs |->
                    IF n = "input" THEN bufs[n]
                    ELSE Buff(bufs[n].kind, bufs[n].id + 100, Fresh(Len(bufs[n].data)),
                              bufs[n].w, bufs[n].h)]
    IN IF b.kind # "DynImage" THEN [ok |-> TRUE, buffers |-> fresh, uploaded |-> FALSE]
       ELSE IF Len(image.px) > Len(b.data)
       THEN [ok |-> FALSE, buffers |-> bufs, uploaded |-> FALSE]
       ELSE [ok |-> TRUE, uploaded |-> TRUE,
             buffers |-> WithData(fresh, "input", Overlay(b.data, image.px, Len(image.px)))]

\* CScope::set_input.  Buffer::write fails when the data is longer than
\* the buffer and writes the head of the buffer otherwise.
SetInput(bufs, image) ==
    LET b == bufs["input"] IN
    IF b.kind # "DynImage" THEN [ok |-> TRUE, buffers |-> bufs, uploaded |-> FALSE]
    ELSE IF Len(image.px) > Len(b.data)
    THEN [ok |-> FALSE, buffers |-> bufs, uploaded |-> FALSE]
    ELSE [ok |-> TRUE, uploaded |-> TRUE,
          buffers |-> WithData(bufs, "input", Overlay(b.data, image.px, Len(image.px)))]

\* get_output that never reads the device buffer
GetOutputUnread(bufs, size) ==
    [ok |-> TRUE, downloaded |-> FALSE,
     image |-> Image(U32(size[1]), U32(size[2]), [i \in 1..(size[1] * size[2] * 3) |-> 0])]

\* a get_output that returns the whole of "output" as one row
GetOutputWholeBuffer(bufs, size) ==
    LET b == bufs["output"] IN
    [ok |-> TRUE, downloaded |-> TRUE, image |-> Image(Len(b.data) \div 3, 1, b.data)]

\* CScope::get_output.  Buffer::read fails when the host vector is longer
\* than the buffer and reads the head of the buffer otherwise.
GetOutput(bufs, size) ==
    LET n == size[1] * size[2] * 3
        b == bufs["output"]
    IN IF b.kind # "DynImage"
       THEN [ok |-> TRUE, downloaded |-> FALSE,
             image |-> Image(U32(size[1]), U32(size[2]), [i \in 1..n |-> 0])]
       ELSE IF n > Len(b.data)
       THEN [ok |-> FALSE, downloaded |-> FALSE, image |-> NoImage]
       ELSE [ok |-> TRUE, downloaded |-> TRUE,
             image |-> Image(U32(size[1]), U32(size[2]), SubSeq(b.data, 1, n))]

\* a scope whose image references carry the shape of the allocation
CreateRhaiScopeOfAllocation(bufs, size) ==
    [n \in DOMAIN bufs |->
        CASE bufs[n].kind = "IntBuffer" -> BufferRhaiRef(n, Len(bufs[n].data))
          [] bufs[n].kind = "FloatBuffer" -> BufferRhaiRef(n, Len(bufs[n].data))
          [] bufs[n].kind = "DynImage" -> ImageRhaiRef(n, Len(bufs[n].data) \div 3, 1)
          [] bufs[n].kind = "Image" -> ImageRhaiRef(n, bufs[n].w, bufs[n].h)]

\* CScope::create_rhai_scope
CreateRhaiScope(bufs, size) ==
    [n \in DOMAIN bufs |->
        CASE bufs[n].kind = "IntBuffer" -> BufferRhaiRef(n, Len(bufs[n].data))
          [] bufs[n].kind = "FloatBuffer" -> BufferRhaiRef(n, Len(bufs[n].data))
          [] bufs[n].kind = "DynImage" -> ImageRhaiRef(n, size[1], size[2])
          [] bufs[n].kind = "Image" -> ImageRhaiRef(n, bufs[n].w, bufs[n].h)]

Created(bufs, r) == [ok |-> TRUE, buffers |-> bufs, ret |-> r, err |-> NoErr]
NotCreated(bufs, msg, name) ==
    [ok |-> FALSE, buffers |-> bufs, ret |-> Unit, err |-> Error(msg, name)]

\* the values uploaded last element first
PayloadReversed(raw) == [i \in 1..Len(raw) |-> raw[Len(raw) + 1 - i].a]

\* the host vector written to the new buffer: the values in list order
Payload(raw) == [i \in 1..Len(raw) |-> raw[i].a]

\* Buffer::builder().len(n).build(): a buffer of length zero is refused
Allocates(n) == n > 0

\* a create_int_buffer that stores whatever number each value holds
CreateIntBufferAnyNumber(bufs, id, name, raw) ==
    IF ~Allocates(Len(raw))
    THEN NotCreated(bufs, "allocate", name)
    ELSE Created(Insert(bufs, name, Buff("IntBuffer", id, Payload(raw), 0, 0)),
                 BufferRhaiRef(name, Len(raw)))

\* CScope::create_int_buffer: d.cast::<i64>() panics on any other type
CreateIntBuffer(bufs, id, name, raw) ==
    IF \E i \in 1..Len(raw) : raw[i].t # "i64"
    THEN NotCreated(bufs, "cast", name)
    ELSE IF ~Allocates(Len(raw))
    THEN NotCreated(bufs, "allocate", name)
    ELSE Created(Insert(bufs, name, Buff("IntBuffer", id, Payload(raw), 0, 0)),
                 BufferRhaiRef(name, Len(raw)))

\* CScope::create_float_buffer
CreateFloatBuffer(bufs, id, name, raw) ==
    IF \E i \in 1..Len(raw) : raw[i].t # "f64"
    THEN NotCreated(bufs, "cast", name)
    ELSE IF ~Allocates(Len(raw))
    THEN NotCreated(bufs, "allocate", name)
    ELSE Created(Insert(bufs, name, Buff("FloatBuffer", id, Payload(raw), 0, 0)),
                 BufferRhaiRef(name, Len(raw)))

\* a create_dynimage that allocates for the size a scope is constructed with
CreateDynimageUnsized(bufs, id, size, name) ==
    Created(Insert(bufs, name, Buff("DynImage", id, Fresh(0), 0, 0)), Unit)

\* CScope::create_dynimage on a scope whose dynimg_size is size
CreateDynimage(bufs, id, size, name) ==
    IF ~Allocates(size[1] * size[2] * 3)
    THEN NotCreated(bufs, "allocate", name)
    ELSE Created(Insert(bufs, name, Buff("DynImage", id, Fresh(size[1] * size[2] * 3), 0, 0)),
                 Unit)

\* CScope::create_image
CreateImage(bufs, id, name, width, height) ==
    IF ~Allocates(width * height * 3)
    THEN NotCreated(bufs, "allocate", name)
    ELSE Created(Insert(bufs, name, Buff("Image", id, Fresh(width * height * 3), width, height)),
                 ImageRhaiRef(name, width, height))

\* a clone of the scope that copies the map: what is written through the
\* clone does not reach the map the executor holds
GetBuffersMutOfCopy(own, written) == own

\* CScope::get_buffers_mut on a clone: buffers is an Rc, so the map written
\* through the clone is the map of the scope it was cloned from
GetBuffersMut(own, written) == written

\* an `ocl` object that stays the clone made before: its frame size is the
\* one it was made with
ScriptOclKept(held, current) == held

\* the frame size of the clone pushed as `ocl`: dynimg_size is cloned by
\* value, so it is the size of the scope at the moment of the clone
ScriptOcl(held, current) == current


\* the HashMap CInstance::init builds: "input" and "output", each a
\* DynImage of size.0 * size.1 * 3 bytes
ReservedBuffers(size, id) ==
    Insert(Insert([n \in {} |-> Unit], "input",
                  Buff("DynImage", id, Fresh(size[1] * size[2] * 3), 0, 0)),
           "output", Buff("DynImage", id + 1, Fresh(size[1] * size[2] * 3), 0, 0))

\* CScope::init: the size a scope is constructed with
CScopeInit(bufs) == [buffers |-> bufs, dynimg_size |-> <<0, 0>>]

\* set_image_size that leaves the recorded size alone
SetImageSizeKept(old, size) == old

\* CScope::set_image_size
SetImageSize(old, size) == size

(* ------------------------------------------------------ the two engines *)
\* methods of Ocl registered on init_eng, which evaluates the script's init
InitEngFns == {"create_int_buffer", "create_float_buffer", "create_dynimage"}
\* a run engine that also registers what init_eng registers
RhaiEngFnsWithCreation ==
    {"call_kernel", "create_int_buffer", "create_float_buffer", "create_dynimage"}

\* methods of Ocl registered on rhai_eng, which evaluates the script's run
RhaiEngFns == {"call_kernel"}

\* value lists a script passes to create_int_buffer / create_float_buffer
IntLists == {<<>>, <<I64(1)>>, <<I64(1), F64(2)>>}
FloatLists == {<<>>, <<F64(1), F64(2), F64(3), F64(4)>>, <<F64(1), I64(2)>>}

Stmt(kernel, args) == [kernel |-> kernel, args |-> args]

\* The call_kernel statements of the pipelines modelled, over the variables
\* sc of the run scope: copy the input to a registered name (to itself
\* too), the same with a string among the arguments, overwrite a
\* registered name.
RunStatements(sc) ==
    LET others == DOMAIN sc \ {"input", "output"} IN
    {Stmt("copy", <<sc["input"], sc[n]>>) : n \in DOMAIN sc}
    \cup {Stmt("copy", <<sc["input"], Str, sc["output"]>>)}
    \cup {Stmt("setc", <<sc["output"], I64(7)>>)}
    \cup {Stmt(k, <<sc[n]>>) : k \in {"fill", "zero"}, n \in others}

Empty == [n \in {} |-> Unit]

Init ==
    /\ phase = "uninit"
    /\ buffers = Empty
    /\ dynimg_size = <<0, 0>>
    /\ queue_dims = <<0, 0>>
    /\ ocl_size = <<0, 0>>
    /\ next_id = 1
    /\ scope = Empty
    /\ img = NoImage
    /\ out = NoImage
    /\ runlog = <<>>
    /\ err = NoErr
    /\ ret = Unit
    /\ frames = 0
    /\ creates = 0

\* a panic: the process ends with the message, the registry as it was
Panic(e) ==
    /\ phase' = "panicked"
    /\ err' = e

(* ------------------------------------------------------ CInstance::init *)
\* CInstance::init up to the call of the script's init: the two reserved
\* buffers, the scope, and the clone pushed as `ocl`
CInstanceInit(size) ==
    /\ phase = "uninit"
    /\ LET cscope == CScopeInit(ReservedBuffers(size, next_id))
       IN /\ buffers' = cscope.buffers
          /\ dynimg_size' = SetImageSize(cscope.dynimg_size, size)
          /\ ocl_size' = ScriptOcl(cscope.dynimg_size, dynimg_size')
    /\ queue_dims' = size
    /\ next_id' = next_id + 2
    /\ phase' = "init"
    /\ UNCHANGED <<scope, img, out, runlog, err, ret, frames, creates>>

\* a creation statement of the script's init, evaluated by init_eng:
\* r is what the method does when the engine knows it
InitStatement(f, r) ==
    /\ phase = "init"
    /\ creates < MaxCreates
    /\ creates' = creates + 1
    /\ IF f \notin InitEngFns
       THEN /\ Panic(Error("ErrorFunctionNotFound", f))
            /\ UNCHANGED <<buffers, next_id, ret>>
       ELSE IF ~r.ok
       THEN /\ Panic(r.err)
            /\ UNCHANGED <<buffers, next_id, ret>>
       ELSE /\ buffers' = GetBuffersMut(buffers, r.buffers)
            /\ ret' = r.ret
            /\ next_id' = next_id + 1
            /\ UNCHANGED <<phase, err>>
    /\ UNCHANGED <<dynimg_size, queue_dims, ocl_size, scope, img, out, runlog, frames>>

InitCreateIntBuffer(name, raw) ==
    InitStatement("create_int_buffer", CreateIntBuffer(buffers, next_id, name, raw))

InitCreateFloatBuffer(name, raw) ==
    InitStatement("create_float_buffer", CreateFloatBuffer(buffers, next_id, name, raw))

InitCreateDynimage(name) ==
    InitStatement("create_dynimage", CreateDynimage(buffers, next_id, ocl_size, name))

InitCreateImage(name, size) ==
    InitStatement("create_image", CreateImage(buffers, next_id, name, size[1], size[2]))

\* the script's init function returns; CInstance::init returns Self
InitReturn ==
    /\ phase = "init"
    /\ phase' = "ready"
    /\ UNCHANGED <<buffers, dynimg_size, queue_dims, ocl_size, next_id, scope, img, out,
                   runlog, err, ret, frames, creates>>

(* --------------------------------------------------- CInstance::compute *)
\* compute up to the call of the script's run: set_image_size, set_input,
\* create_rhai_scope, the clone pushed as `ocl`
ComputeBegin(image) ==
    /\ phase = "ready"
    /\ frames < MaxFrames
    /\ dynimg_size' = SetImageSize(dynimg_size, <<image.w, image.h>>)
    /\ img' = image
    /\ out' = NoImage
    /\ runlog' = <<>>
    /\ LET r == SetInput(buffers, image) IN
       IF ~r.ok
       THEN /\ Panic(Error("write", "input"))
            /\ UNCHANGED <<buffers, scope, ocl_size>>
       ELSE /\ buffers' = r.buffers
            /\ scope' = CreateRhaiScope(buffers', dynimg_size')
            /\ ocl_size' = ScriptOcl(ocl_size, dynimg_size')
            /\ phase' = "run"
            /\ UNCHANGED err
    /\ UNCHANGED <<queue_dims, next_id, ret, frames, creates>>

\* a call_kernel statement of the script's run, evaluated by rhai_eng
RunCallKernel(kernel, args) ==
    /\ phase = "run"
    /\ Len(runlog) < MaxCalls
    /\ IF "call_kernel" \notin RhaiEngFns
       THEN /\ Panic(Error("ErrorFunctionNotFound", "call_kernel"))
            /\ UNCHANGED <<buffers, runlog>>
       ELSE LET r == CallKernel(buffers, ocl_size, kernel, args) IN
            /\ runlog' = Append(runlog, r.call)
            /\ buffers' = r.buffers
            /\ IF r.ok THEN UNCHANGED <<phase, err>> ELSE Panic(r.err)
    /\ UNCHANGED <<dynimg_size, queue_dims, ocl_size, next_id, scope, img, out, ret, frames, creates>>

\* a creation statement in the script's run, evaluated by rhai_eng
RunCreate(f, name) ==
    /\ phase = "run"
    /\ LET r == CASE f = "create_int_buffer" ->
                       CreateIntBuffer(buffers, next_id, name, <<I64(1)>>)
                  [] f = "create_float_buffer" ->
                       CreateFloatBuffer(buffers, next_id, name, <<F64(1)>>)
                  [] f = "create_dynimage" ->
                       CreateDynimage(buffers, next_id, ocl_size, name)
                  [] f = "create_image" ->
                       CreateImage(buffers, next_id, name, 1, 1)
       IN IF f \notin RhaiEngFns
          THEN /\ Panic(Error("ErrorFunctionNotFound", f))
               /\ UNCHANGED <<buffers, next_id, ret>>
          ELSE /\ buffers' = r.buffers
               /\ ret' = r.ret
               /\ next_id' = next_id + 1
               /\ UNCHANGED <<phase, err>>
    /\ UNCHANGED <<dynimg_size, queue_dims, ocl_size, scope, img, out, runlog, frames, creates>>

\* a compute that runs the script's init again once run has returned
ComputeReturnReinit ==
    /\ phase = "run"
    /\ LET r == GetOutput(buffers, dynimg_size) IN
       IF ~r.ok
       THEN /\ Panic(Error("read", "output"))
            /\ UNCHANGED <<out, frames, scope>>
       ELSE /\ out' = r.image
            /\ frames' = frames + 1
            /\ scope' = Empty
            /\ phase' = "init"
            /\ UNCHANGED err
    /\ UNCHANGED <<buffers, dynimg_size, queue_dims, ocl_size, next_id, img, runlog, ret, creates>>

\* the script's run function returns; compute returns get_output()
ComputeReturn ==
    /\ phase = "run"
    /\ LET r == GetOutput(buffers, dynimg_size) IN
       IF ~r.ok
       THEN /\ Panic(Error("read", "output"))
            /\ UNCHANGED <<out, frames, scope>>
       ELSE /\ out' = r.image
            /\ frames' = frames + 1
            /\ scope' = Empty
            /\ phase' = "ready"
            /\ UNCHANGED err
    /\ UNCHANGED <<buffers, dynimg_size, queue_dims, ocl_size, next_id, img, runlog, ret, creates>>

CreationFns == {"create_int_buffer", "create_float_buffer", "create_dynimage", "create_image"}

Next ==
    \/ \E size \in Sizes : CInstanceInit(size)
    \/ \E name \in Names, raw \in IntLists : InitCreateIntBuffer(name, raw)
    \/ \E name \in Names, raw \in FloatLists : InitCreateFloatBuffer(name, raw)
    \/ \E name \in Names : InitCreateDynimage(name)
    \/ \E name \in Names, size \in Sizes : InitCreateImage(name, size)
    \/ InitReturn
    \/ \E image \in Images : ComputeBegin(image)
    \/ phase = "run" /\ \E s \in RunStatements(scope) : RunCallKernel(s.kernel, s.args)
    \/ \E f \in CreationFns, name \in Names : RunCreate(f, name)
    \/ ComputeReturn

Spec == Init /\ [][Next]_vars


(* ------------------------------------------------ the CScope on its own *)
\* registry keys of the direct creation calls
ApiNames == {"input", "aux"}

\* Argument values of a direct call of call_kernel: a number, and
\* references to names that may or may not be registered and whose kind
\* and cached shape may or may not be the entry's.
ApiValues ==
    {I64(7), BufferRhaiRef("aux", 1), ImageRhaiRef("aux", 2, 1), ImageRhaiRef("input", 2, 1)}

\* kernels of the direct calls
ApiKernels == {"blit", "setc"}

RECURSIVE SeqsUpTo(_, _)
SeqsUpTo(S, n) ==
    IF n = 0 THEN {<<>>}
    ELSE LET T == SeqsUpTo(S, n - 1) IN
         T \cup {Append(t, x) : t \in {u \in T : Len(u) = n - 1}, x \in S}

ApiArgs == SeqsUpTo(ApiValues, MaxArgs)

\* the scope as CInstance::init leaves it, before any script has run
ScopeInit ==
    /\ phase = "api"
    /\ \E size \in Sizes :
          /\ buffers = CScopeInit(ReservedBuffers(size, 1)).buffers
          /\ dynimg_size = SetImageSize(CScopeInit(buffers).dynimg_size, size)
          /\ queue_dims = size
    /\ ocl_size = dynimg_size
    /\ next_id = 3
    /\ scope = Empty
    /\ img = NoImage
    /\ out = NoImage
    /\ runlog = <<>>
    /\ err = NoErr
    /\ ret = Unit
    /\ frames = 0
    /\ creates = 0

\* a direct call of a creation method: r is what the method does
ApiCreate(r) ==
    /\ phase = "api"
    /\ creates < MaxApiCreates
    /\ creates' = creates + 1
    /\ IF ~r.ok
       THEN /\ Panic(r.err)
            /\ UNCHANGED <<buffers, next_id, ret>>
       ELSE /\ buffers' = r.buffers
            /\ ret' = r.ret
            /\ next_id' = next_id + 1
            /\ UNCHANGED <<phase, err>>
    /\ UNCHANGED <<dynimg_size, queue_dims, ocl_size, scope, img, out, runlog, frames>>

ApiCreateIntBuffer(name, raw) == ApiCreate(CreateIntBuffer(buffers, next_id, name, raw))

ApiCreateFloatBuffer(name, raw) == ApiCreate(CreateFloatBuffer(buffers, next_id, name, raw))

ApiCreateDynimage(name) == ApiCreate(CreateDynimage(buffers, next_id, dynimg_size, name))

ApiCreateImage(name, size) == ApiCreate(CreateImage(buffers, next_id, name, size[1], size[2]))

ApiSetImageSize(size) ==
    /\ phase = "api"
    /\ dynimg_size' = SetImageSize(dynimg_size, size)
    /\ ocl_size' = dynimg_size'
    /\ UNCHANGED <<phase, buffers, queue_dims, next_id, scope, img, out, runlog, err, ret,
                   frames, creates>>

ApiCallKernel(kernel, args) ==
    /\ phase = "api"
    /\ Len(runlog) < MaxCalls
    /\ LET r == CallKernel(buffers, dynimg_size, kernel, args) IN
       /\ runlog' = Append(runlog, r.call)
       /\ buffers' = r.buffers
       /\ IF r.ok THEN UNCHANGED <<phase, err>> ELSE Panic(r.err)
    /\ UNCHANGED <<dynimg_size, queue_dims, ocl_size, next_id, scope, img, out, ret, frames, creates>>

ScopeNext ==
    \/ \E name \in ApiNames, raw \in IntLists : ApiCreateIntBuffer(name, raw)
    \/ \E name \in ApiNames, raw \in FloatLists : ApiCreateFloatBuffer(name, raw)
    \/ \E name \in ApiNames : ApiCreateDynimage(name)
    \/ \E name \in ApiNames, size \in Sizes : ApiCreateImage(name, size)
    \/ \E size \in Sizes : ApiSetImageSize(size)
    \/ \E kernel \in ApiKernels, args \in ApiArgs : ApiCallKernel(kernel, args)

ScopeSpec == ScopeInit /\ [][ScopeNext]_vars


(* ================================================================ claims *)
Reserved == {"input", "output"}
FrameBytes(size) == size[1] * size[2] * 3
Live == phase \in {"init", "ready", "run"}
IsRef(arg) == arg.t \in {"BufferRhaiRef", "ImageRhaiRef"}
Supported(arg) == IsScalar(arg) \/ IsRef(arg)

\* C1: in every state after CInstance::init has built the registry, for any
\* creations by the script and any compute calls, "input" and "output"
\* exist, are DynamicImage entries and have length width*height*3 for the
\* current frame size.
C1_ReservedSlots ==
    Live => \A n \in Reserved :
                /\ n \in DOMAIN buffers
                /\ buffers[n].kind = "DynImage"
                /\ Len(buffers[n].data) = FrameBytes(dynimg_size)

CopiedInputToOutput ==
    /\ Len(runlog) = 1
    /\ runlog[1].enq
    /\ runlog[1].kernel = "copy"
    /\ runlog[1].params[1].name = "input"
    /\ runlog[1].params[2].name = "output"

\* C3: when the script's run copies "input" to "output", compute returns an
\* image equal to the one it was given, in size and in every byte, for every
\* image of the size given to init and whatever computes came before.
C3_RoundTrip ==
    (phase = "ready" /\ frames > 0 /\ CopiedInputToOutput /\ <<img.w, img.h>> = queue_dims)
        => out = img

C3_Witness ==
    /\ phase = "ready"
    /\ frames = 3
    /\ CopiedInputToOutput
    /\ <<img.w, img.h>> = queue_dims
    /\ queue_dims = <<2, 1>>
    /\ out = img
    /\ out.px = Pixels(2, 1, 1)


(* ---- call_kernel claims: what a call resolved against is the registry
        of the state the call was made in ---- *)
Called == Len(runlog') = Len(runlog) + 1
TheCall == runlog'[Len(runlog')]

\* kernel parameters one supported argument consumes
Consumes(bufs, arg) ==
    IF arg.t = "ImageRhaiRef" /\ bufs[arg.name].kind = "Image" THEN 3 ELSE 1

\* position of the first parameter of argument i
RECURSIVE Offset(_, _, _)
Offset(bufs, args, i) ==
    IF i = 1 THEN 1 ELSE Offset(bufs, args, i - 1) + Consumes(bufs, args[i - 1])

BoundAt(bufs, arg, ps, o) ==
    CASE IsScalar(arg) -> ps[o] = Param(arg.t, "", 0, arg.a)
      [] arg.t = "BufferRhaiRef" ->
           /\ ps[o].name = arg.name
           /\ ps[o].id = bufs[arg.name].id
           /\ ps[o].p = (IF bufs[arg.name].kind = "IntBuffer" THEN "i64*" ELSE "f64*")
      [] arg.t = "ImageRhaiRef" ->
           /\ ps[o] = Param("u8*", arg.name, bufs[arg.name].id, 0)
           /\ bufs[arg.name].kind = "Image" =>
                 /\ ps[o + 1] = Param("usize", "", 0, arg.a)
                 /\ ps[o + 2] = Param("usize", "", 0, arg.b)

\* C4: call_kernel binds the kernel parameters left to right in the order
\* of the arguments: a scalar, a buffer reference and a DynamicImage
\* reference one parameter each, a FixedImage reference three (the buffer,
\* then the width and the height the reference carries); after the last
\* argument come exactly two more, the frame width then the frame height
\* as u32.
C4_ArgumentOrder ==
    [][Called =>
         LET c == TheCall
             n == Len(c.args)
             m == Len(c.params)
         IN (c.params # <<>> /\ \A i \in 1..n : Supported(c.args[i])) =>
               /\ m = Offset(buffers, c.args, n + 1) + 1
               /\ \A i \in 1..n :
                     BoundAt(buffers, c.args[i], c.params, Offset(buffers, c.args, i))
               /\ c.params[m - 1] = Param("u32", "", 0, U32(dynimg_size[1]))
               /\ c.params[m] = Param("u32", "", 0, U32(dynimg_size[2]))]_vars

\* a FixedImage reference first, a DynamicImage reference after it, the
\* frame 2 by 1: six parameters, the second buffer at position 4
C4_Witness ==
    /\ runlog # <<>>
    /\ LET c == runlog[Len(runlog)] IN
       /\ c.enq
       /\ c.kernel = "blit"
       /\ Len(c.args) = 2
       /\ Len(c.params) = 6
       /\ c.params[1].name = "aux"
       /\ c.params[4].name = "input"
       /\ c.params[5].v = 2
       /\ c.params[6].v = 1

Unknown(bufs, arg) == IsRef(arg) /\ arg.name \notin DOMAIN bufs

\* a reference call_kernel cannot resolve: no entry of that name, or an
\* entry of the other family
Unresolved(bufs, arg) ==
    /\ IsRef(arg)
    /\ \/ arg.name \notin DOMAIN bufs
       \/ arg.t = "BufferRhaiRef" /\ bufs[arg.name].kind \notin {"IntBuffer", "FloatBuffer"}
       \/ arg.t = "ImageRhaiRef" /\ bufs[arg.name].kind \notin {"Image", "DynImage"}

FirstUnresolved(bufs, args) ==
    CHOOSE i \in 1..Len(args) :
        /\ Unresolved(bufs, args[i])
        /\ \A j \in 1..(i - 1) : ~Unresolved(bufs, args[j])

\* C5 as claimed: a call_kernel whose arguments hold a reference to a name
\* that is no key of the registry fails with an error that names it, with
\* the kernel not enqueued.  (A panic ends the run, so the registry of a
\* panicked state is the one the call was made on.)
C5_NamesEveryUnknown ==
    (phase = "panicked" /\ runlog # <<>>) =>
        LET c == runlog[Len(runlog)] IN
        \A i \in 1..Len(c.args) :
            Unknown(buffers, c.args[i]) => (~c.enq /\ err.name = c.args[i].name)

\* C5 as amended: a call_kernel whose arguments hold a reference to a name
\* that is no key of the registry fails, the kernel is not enqueued and no
\* registry entry or buffer content changes; the error names the first
\* reference of the argument list that does not resolve, which is the
\* unknown name when no reference before it fails to resolve.
C5_UnknownNameFails ==
    [][Called =>
         LET c == TheCall IN
         (\E i \in 1..Len(c.args) : Unknown(buffers, c.args[i])) =>
             LET a == c.args[FirstUnresolved(buffers, c.args)] IN
             /\ ~c.enq
             /\ phase' = "panicked"
             /\ buffers' = buffers
             /\ err'.name = a.name
             /\ err'.msg = (IF a.t = "BufferRhaiRef" THEN "There is no buffer named"
                                                     ELSE "There is no image named")]_vars

C5_Witness ==
    /\ phase = "panicked"
    /\ runlog # <<>>
    /\ LET c == runlog[Len(runlog)] IN
       /\ c.args = <<I64(7), BufferRhaiRef("aux", 1)>>
       /\ ~c.enq
    /\ err = Error("There is no buffer named", "aux")
    /\ "aux" \notin DOMAIN buffers

\* C6: a call_kernel with an argument that is no scalar and no reference
\* fails, and the kernel is not enqueued.
C6_UnsupportedFails ==
    \A k \in 1..Len(runlog) :
        (\E i \in 1..Len(runlog[k].args) : ~Supported(runlog[k].args[i])) => ~runlog[k].enq

\* C7: compute fails rather than go on when "input" is no DynamicImage at
\* its start, or "output" is none when run has returned: run is never
\* entered without the upload and no image is returned that was not read
\* from "output".
C7_KindMismatchFails ==
    /\ phase = "run" => buffers["input"].kind = "DynImage"
    /\ (phase = "ready" /\ frames > 0) => buffers["output"].kind = "DynImage"

\* C8: the script's init can call create_image: the statement is not
\* refused as an unknown function.  (scope is empty outside a run.)
C8_InitCanCreateImage ==
    ~(/\ phase = "panicked"
      /\ scope = Empty
      /\ err = Error("ErrorFunctionNotFound", "create_image"))

\* the step is a kernel enqueued with the entry n among its parameters
KernelGiven(n) ==
    /\ Called
    /\ TheCall.enq
    /\ \E p \in 1..Len(TheCall.params) : TheCall.params[p].name = n

\* C9: once init has returned, a FloatBuffer entry of length 4 stays the
\* same device buffer of the same kind and length through every compute,
\* and its contents change only in a step that enqueues a kernel given that
\* buffer: compute itself neither reallocates nor rewrites it.
C9_BatchReuse ==
    [][(phase = "ready" \/ phase = "run") =>
         \A n \in DOMAIN buffers :
             (buffers[n].kind = "FloatBuffer" /\ Len(buffers[n].data) = 4) =>
                 /\ n \in DOMAIN buffers'
                 /\ buffers'[n].id = buffers[n].id
                 /\ buffers'[n].kind = "FloatBuffer"
                 /\ Len(buffers'[n].data) = 4
                 /\ (buffers'[n].data = buffers[n].data \/ KernelGiven(n))]_vars

C9_Witness ==
    /\ phase = "ready"
    /\ frames = 3
    /\ "aux" \in DOMAIN buffers
    /\ buffers["aux"] = Buff("FloatBuffer", 3, <<1, 2, 3, 4>>, 0, 0)

\* C10: from the return of init on, through every compute (the upload, the
\* script's run with its call_kernel statements, the download), no name is
\* added to the registry and no entry changes kind or length.
C10_NoCreationInRun ==
    [][(phase = "ready" \/ phase = "run") =>
         /\ DOMAIN buffers' = DOMAIN buffers
         /\ \A n \in DOMAIN buffers :
               /\ buffers'[n].kind = buffers[n].kind
               /\ Len(buffers'[n].data) = Len(buffers[n].data)]_vars

\* a creation statement met in run: refused, the registry as it was
C10_Witness ==
    /\ phase = "panicked"
    /\ scope # Empty
    /\ err = Error("ErrorFunctionNotFound", "create_int_buffer")
    /\ DOMAIN buffers = {"input", "output"}

(* ---- creation claims: a step of the script's init is recognised as the
        creation statement it is ---- *)
WellTyped(raw, t) == \A i \in 1..Len(raw) : raw[i].t = t

\* C11: entries are never removed: in every step, from the construction of
\* the registry through the creations of init and every compute, each name
\* of the registry is still a name of the registry after the step.
C11_NeverRemoved ==
    [][\A n \in DOMAIN buffers : n \in DOMAIN buffers']_vars

\* three computes made on a registry that init extended and whose "input"
\* it replaced
C11_Witness ==
    /\ phase = "ready"
    /\ frames = 3
    /\ DOMAIN buffers = {"input", "output", "aux"}
    /\ buffers["aux"].kind = "DynImage"
    /\ buffers["input"].kind = "IntBuffer"

\* the step inserted, under name, a buffer of the kind with the values of
\* raw in order, left every other entry alone and returned the reference
InsertedBuffer(name, kind, raw) ==
    /\ phase' = phase
    /\ DOMAIN buffers' = DOMAIN buffers \cup {name}
    /\ buffers'[name].kind = kind
    /\ Len(buffers'[name].data) = Len(raw)
    /\ \A i \in 1..Len(raw) : buffers'[name].data[i] = raw[i].a
    /\ \A n \in DOMAIN buffers \ {name} : buffers'[n] = buffers[n]
    /\ ret' = BufferRhaiRef(name, Len(raw))

\* C12 as claimed: create_int_buffer and create_float_buffer insert the
\* entry for any list of values of the requested type: no such creation
\* ends with the allocation refused.
C12_AnyValuesInserted ==
    ~(phase = "panicked" /\ scope = Empty /\ err.msg = "allocate")

\* C12 as amended: create_int_buffer(name, values) and
\* create_float_buffer(name, values), given a non-empty list of values of
\* the requested type, insert under name an entry of the requested kind
\* whose length is the number of values and whose contents are the values
\* in order, replacing any prior entry of that name whatever its kind and
\* leaving every other entry alone, and return a buffer reference carrying
\* that name and that element count.
C12_CreateBuffers ==
    [][\A name \in Names :
          /\ \A raw \in IntLists :
                (InitCreateIntBuffer(name, raw) /\ WellTyped(raw, "i64") /\ raw # <<>>)
                    => InsertedBuffer(name, "IntBuffer", raw)
          /\ \A raw \in FloatLists :
                (InitCreateFloatBuffer(name, raw) /\ WellTyped(raw, "f64") /\ raw # <<>>)
                    => InsertedBuffer(name, "FloatBuffer", raw)]_vars

\* the DynamicImage "input" replaced by a FloatBuffer of four values
C12_Witness ==
    /\ phase = "init"
    /\ buffers["input"] = Buff("FloatBuffer", 3, <<1, 2, 3, 4>>, 0, 0)
    /\ buffers["output"].kind = "DynImage"
    /\ ret = BufferRhaiRef("input", 4)

\* C13: every buffer parameter a call_kernel binds for a reference is the
\* device buffer stored under the reference's name in the registry the call
\* is made on; so the same name bound twice in one argument list, or in two
\* invocations of one run (the registry does not change in between), is the
\* same device buffer.
C13_ResolutionDeterminism ==
    [][Called =>
         LET c == TheCall IN
         /\ \A p \in 1..Len(c.params) :
               c.params[p].name # "" =>
                   /\ c.params[p].name \in DOMAIN buffers
                   /\ c.params[p].id = buffers[c.params[p].name].id
         /\ \A p \in 1..Len(c.params), q \in 1..Len(c.params) :
               (c.params[p].name # "" /\ c.params[p].name = c.params[q].name)
                   => c.params[p].id = c.params[q].id
         /\ \A k \in 1..Len(runlog) :
               \A p \in 1..Len(c.params), q \in 1..Len(runlog[k].params) :
                   (c.params[p].name # "" /\ c.params[p].name = runlog[k].params[q].name)
                       => c.params[p].id = runlog[k].params[q].id]_vars

\* the reference to "input" twice in the arguments of one enqueued kernel
C13_Witness ==
    /\ runlog # <<>>
    /\ LET c == runlog[1] IN
       /\ c.enq
       /\ c.kernel = "copy"
       /\ c.args[1] = c.args[2]
       /\ c.params[1].name = "input"
       /\ c.params[2].name = "input"
       /\ c.params[1].id = c.params[2].id
       /\ c.params[1].id = buffers["input"].id

\* C14: an entry created through the script's `ocl` object during init is
\* in the registry right after the statement, stays in it through every
\* later statement of init and every compute, and is among the entries the
\* executor builds the run scope from at each compute.
C14_SharedRegistry ==
    [][/\ \A name \in Names :
             /\ \A raw \in IntLists :
                   (InitCreateIntBuffer(name, raw) /\ phase' = "init")
                       => (name \in DOMAIN buffers' /\ buffers'[name].kind = "IntBuffer")
             /\ \A raw \in FloatLists :
                   (InitCreateFloatBuffer(name, raw) /\ phase' = "init")
                       => (name \in DOMAIN buffers' /\ buffers'[name].kind = "FloatBuffer")
             /\ (InitCreateDynimage(name) /\ phase' = "init")
                   => (name \in DOMAIN buffers' /\ buffers'[name].kind = "DynImage")
       /\ \A n \in DOMAIN buffers : n \in DOMAIN buffers'
       /\ (phase = "ready" /\ phase' = "run") =>
             \A n \in DOMAIN buffers : n \in DOMAIN scope']_vars

\* the second compute runs a kernel on the buffer init created
C14_Witness ==
    /\ phase = "run"
    /\ frames = 1
    /\ "aux" \in DOMAIN buffers
    /\ buffers["aux"].kind = "FloatBuffer"
    /\ scope["aux"] = BufferRhaiRef("aux", 4)
    /\ Len(runlog) = 1
    /\ runlog[1].enq
    /\ runlog[1].kernel = "fill"
    /\ runlog[1].params[1].name = "aux"

\* C15: the executor's phase changes only uninit -> init (CInstance::init
\* calls the script's init), init -> ready (init returns), ready -> run
\* (compute calls the script's run), run -> ready (compute returns), or to
\* the end of the process by a panic: init is entered once, before any run;
\* each compute enters run once and leaves it before the next can begin;
\* the count of computes made grows by one exactly when run is left.
C15_PhaseMachine ==
    [][/\ (phase' # phase) =>
             \/ (phase = "uninit" /\ phase' = "init")
             \/ (phase = "init" /\ phase' = "ready")
             \/ (phase = "ready" /\ phase' = "run")
             \/ (phase = "run" /\ phase' = "ready")
             \/ (phase # "uninit" /\ phase' = "panicked")
       /\ frames' = (IF phase = "run" /\ phase' = "ready" THEN frames + 1 ELSE frames)
       /\ (phase = "ready" /\ phase' = "run") => runlog' = <<>>]_vars

C15_Witness ==
    /\ phase = "ready"
    /\ frames = 3
    /\ creates = 2
    /\ runlog # <<>>
    /\ out # NoImage

\* C16: every compute that returns yields an image with the width and the
\* height of the image it was given and width*height*3 bytes, whatever the
\* size given to init and the frames before.
C16_OutputFrameSized ==
    (phase = "ready" /\ frames > 0) =>
        /\ out.w = img.w
        /\ out.h = img.h
        /\ Len(out.px) = img.w * img.h * 3

\* a 1 by 1 frame returned by an executor initialised for 2 by 1
C16_Witness ==
    /\ phase = "ready"
    /\ frames = 2
    /\ queue_dims = <<2, 1>>
    /\ <<img.w, img.h>> = <<1, 1>>
    /\ <<out.w, out.h>> = <<1, 1>>
    /\ Len(out.px) = 3

\* a reference whose name is a key of the registry, of an entry of the
\* other family
Mismatch(bufs, arg) ==
    /\ IsRef(arg)
    /\ arg.name \in DOMAIN bufs
    /\ \/ arg.t = "BufferRhaiRef" /\ bufs[arg.name].kind \in {"DynImage", "Image"}
       \/ arg.t = "ImageRhaiRef" /\ bufs[arg.name].kind \in {"IntBuffer", "FloatBuffer"}

\* C17 as claimed: a call_kernel whose arguments hold a buffer reference to
\* an image entry, or an image reference to an IntBuffer or FloatBuffer
\* entry, fails with an error that names that reference, the kernel not
\* enqueued.  (A panic ends the process, so the registry of a panicked
\* state is the one the call was made on.)
C17_NamesEveryMismatch ==
    (phase = "panicked" /\ runlog # <<>>) =>
        LET c == runlog[Len(runlog)] IN
        \A i \in 1..Len(c.args) :
            Mismatch(buffers, c.args[i]) => (~c.enq /\ err.name = c.args[i].name)

\* C17 as amended: a call_kernel whose arguments hold a buffer reference to
\* an image entry, or an image reference to an IntBuffer or FloatBuffer
\* entry, fails fatally, the kernel is not enqueued and the registry is
\* left as it was; the error names the first reference of the argument
\* list that does not resolve (unknown name or wrong kind), as a missing
\* buffer for a buffer reference and a missing image for an image
\* reference.
C17_MismatchFails ==
    [][Called =>
         LET c == TheCall IN
         (\E i \in 1..Len(c.args) : Mismatch(buffers, c.args[i])) =>
             LET a == c.args[FirstUnresolved(buffers, c.args)] IN
             /\ ~c.enq
             /\ phase' = "panicked"
             /\ buffers' = buffers
             /\ err'.name = a.name
             /\ err'.msg = (IF a.t = "BufferRhaiRef" THEN "There is no buffer named"
                                                     ELSE "There is no image named")]_vars

\* an image reference to "input" after "input" became an IntBuffer
C17_Witness ==
    /\ phase = "panicked"
    /\ runlog # <<>>
    /\ LET c == runlog[Len(runlog)] IN
       /\ c.args = <<ImageRhaiRef("input", 2, 1)>>
       /\ ~c.enq
    /\ buffers["input"].kind = "IntBuffer"
    /\ err = Error("There is no image named", "input")

\* C18: within one compute no step is skipped and the order is kept: while
\* the script's run executes, the frame size is that of the image, the
\* bytes of the image are in "input", the run scope is the one built from
\* the registry for that frame size, and nothing has been downloaded; the
\* image a compute returned was read from "output".
C18_StepOrder ==
    /\ phase = "run" =>
          /\ dynimg_size = <<img.w, img.h>>
          /\ buffers["input"].kind = "DynImage"
          /\ SubSeq(buffers["input"].data, 1, Len(img.px)) = img.px
          /\ scope = CreateRhaiScope(buffers, <<img.w, img.h>>)
          /\ out = NoImage
    /\ (phase = "ready" /\ frames > 0) =>
          /\ buffers["output"].kind = "DynImage"
          /\ out.px = SubSeq(buffers["output"].data, 1, Len(out.px))

\* C19: create_dynimage(name) called by the script's init succeeds and
\* inserts under name a DynamicImage entry of width*height*3 bytes for the
\* size given to CInstance::init, never of the zero bytes of the size a
\* scope is constructed with.
C19_DynimageFrameSized ==
    [][\A name \in Names :
          InitCreateDynimage(name) =>
              /\ phase' = "init"
              /\ name \in DOMAIN buffers'
              /\ buffers'[name].kind = "DynImage"
              /\ Len(buffers'[name].data) = FrameBytes(queue_dims)
              /\ Len(buffers'[name].data) > 0]_vars

C19_Witness ==
    /\ phase = "init"
    /\ creates = 1
    /\ queue_dims = <<2, 1>>
    /\ "aux" \in DOMAIN buffers
    /\ buffers["aux"] = Buff("DynImage", 3, Fresh(6), 0, 0)

\* C20: every call_kernel of a run is made on a scope whose frame size is
\* the size of the image of the compute in progress, and the last two
\* parameters it binds are that width and that height, whatever the size
\* given to init and the frames before.
C20_TrailingFrameSize ==
    (phase = "run" \/ phase = "ready" \/ phase = "panicked") =>
        \A k \in 1..Len(runlog) :
            LET c == runlog[k]
                m == Len(c.params)
            IN /\ c.size = <<img.w, img.h>>
               /\ m > 0 =>
                     /\ c.params[m - 1] = Param("u32", "", 0, U32(img.w))
                     /\ c.params[m] = Param("u32", "", 0, U32(img.h))

\* the third compute of an executor initialised for 2 by 1, on a 1 by 1
\* image: the kernel gets 1 and 1
C20_Witness ==
    /\ phase = "run"
    /\ frames = 2
    /\ queue_dims = <<2, 1>>
    /\ <<img.w, img.h>> = <<1, 1>>
    /\ Len(runlog) = 1
    /\ runlog[1].enq
    /\ runlog[1].kernel = "copy"
    /\ runlog[1].params[3].v = 1
    /\ runlog[1].params[4].v = 1

\* C21: while the script's run executes, the run scope holds exactly one
\* reference per registry entry, under the entry's name and naming it: a
\* buffer reference with the entry's element count for an IntBuffer or a
\* FloatBuffer, an image reference with the width and height of the image
\* of this compute for a DynamicImage, an image reference with the width
\* and height given at creation for a FixedImage; so no reference carries
\* the size of an earlier frame.
C21_ScopeMatchesRegistry ==
    phase = "run" =>
        /\ DOMAIN scope = DOMAIN buffers
        /\ \A n \in DOMAIN buffers :
              LET b == buffers[n]
                  r == scope[n]
              IN /\ r.name = n
                 /\ b.kind \in {"IntBuffer", "FloatBuffer"} =>
                       (r.t = "BufferRhaiRef" /\ r.a = Len(b.data))
                 /\ b.kind = "DynImage" =>
                       (r.t = "ImageRhaiRef" /\ r.a = img.w /\ r.b = img.h)
                 /\ b.kind = "Image" =>
                       (r.t = "ImageRhaiRef" /\ r.a = b.w /\ r.b = b.h)

\* the third compute of an executor initialised for 2 by 1, on a 1 by 1
\* image, with a FloatBuffer of four values created by init
C21_Witness ==
    /\ phase = "run"
    /\ frames = 2
    /\ queue_dims = <<2, 1>>
    /\ <<img.w, img.h>> = <<1, 1>>
    /\ DOMAIN scope = {"input", "output", "aux"}
    /\ scope["input"] = ImageRhaiRef("input", 1, 1)
    /\ scope["output"] = ImageRhaiRef("output", 1, 1)
    /\ scope["aux"] = BufferRhaiRef("aux", 4)
    /\ Len(buffers["input"].data) = 6

\* C22: create_int_buffer given a list with an element that is no i64, or
\* create_float_buffer given a list with an element that is no f64, fails
\* fatally and leaves the registry as it was: nothing is inserted under
\* the name and a prior entry of that name is not replaced.
C22_IllTypedFails ==
    [][\A name \in Names :
          /\ \A raw \in IntLists :
                (InitCreateIntBuffer(name, raw) /\ ~WellTyped(raw, "i64")) =>
                    /\ phase' = "panicked"
                    /\ buffers' = buffers
                    /\ err' = Error("cast", name)
          /\ \A raw \in FloatLists :
                (InitCreateFloatBuffer(name, raw) /\ ~WellTyped(raw, "f64")) =>
                    /\ phase' = "panicked"
                    /\ buffers' = buffers
                    /\ err' = Error("cast", name)]_vars

\* the failed creation named an entry that exists: the DynamicImage that
\* init created under "aux" is still there
C22_Witness ==
    /\ phase = "panicked"
    /\ scope = Empty
    /\ creates = 2
    /\ err = Error("cast", "aux")
    /\ "aux" \in DOMAIN buffers
    /\ buffers["aux"].kind = "DynImage"
    /\ buffers["input"].kind = "DynImage"

====
